---- MODULE Spec2Model ----
(***************************************************************************)
(* A model of the Monkey interpreter: the Pratt parser (parser.ts) and the *)
(* tree-walking evaluator (evaluator.ts).  A run takes one source (a token *)
(* sequence ending in eof), constructs a Parser over it, calls             *)
(* parseProgram and, if that returned, evaluates the Program in a fresh    *)
(* top-level environment, one iteration of evaluateProgram's loop at a     *)
(* time.  Exceptions are modelled as a "thrown" field that every caller    *)
(* propagates; JavaScript's undefined is the value Undefined.              *)
(***************************************************************************)
EXTENDS Integers, Sequences, FiniteSets, TLC

VARIABLES tokens, phase, parser, program, idx, result, store, log, thrown

vars == <<tokens, phase, parser, program, idx, result, store, log, thrown>>

\* ------------------------------------------------------------------ bounds
\* Integer literals of the generated sources range over 0..MaxInt.
MaxInt == 2
\* Host call-stack depth: nested applyFunction calls beyond it end in RangeError.
MaxCallDepth == 4
\* The generated programs hold up to MaxStmts statements of the statement pool.
MaxStmts == 3

\* The deepest recursion the recursive source asks for.
MaxRecursion == 1

\* The longest chain of environments an identifier is looked up in.
MaxChain == 3

\* The most arguments a function is applied to.
MaxArgs == 3

\* ------------------------------------------------------------------ values
\* JavaScript's undefined (a missing node, token or object).
Undefined == [kind |-> "undefined"]

IsUndefined(x) == x.kind = "undefined"

\* ------------------------------------------------------------------ tokens
Tk(kind, text) == [kind |-> kind, text |-> text]

EOF == Tk("eof", "")

\* Number(text) of an integer token: its text is the run of decimal digits.
RECURSIVE Number(_)
Number(text) ==
  IF text = <<>> THEN 0
  ELSE Number(SubSeq(text, 1, Len(text) - 1)) * 10 + text[Len(text)]

IsNaN(text) == \E i \in 1..Len(text) : text[i] \notin 0..9

\* ------------------------------------------------------------------ parser
Lowest == 0
Equals == 1
LessGreater == 2
Sum == 3
Product == 4
Prefix == 5
Call == 6
Index == 7

\* A table in which every binary operator has the precedence of a sum.
flatPrecedences(kind) ==
  CASE kind \in {"equals", "notEquals", "lessThen", "greaterThen", "plus", "minus",
                 "slash", "asterisk"} -> Sum
    [] kind = "leftParenthesis" -> Call
    [] kind = "leftBracket" -> Index
    [] OTHER -> Lowest

precedences(kind) ==
  CASE kind \in {"equals", "notEquals"} -> Equals
    [] kind \in {"lessThen", "greaterThen"} -> LessGreater
    [] kind \in {"plus", "minus"} -> Sum
    [] kind \in {"slash", "asterisk"} -> Product
    [] kind = "leftParenthesis" -> Call
    [] kind = "leftBracket" -> Index
    [] OTHER -> Lowest

PrefixKinds ==
  {"integer", "true", "false", "string", "leftBracket", "leftBrace", "function",
   "identifier", "bang", "minus", "leftParenthesis", "if"}

InfixKinds ==
  {"plus", "minus", "slash", "asterisk", "equals", "notEquals", "lessThen",
   "greaterThen", "leftParenthesis", "leftBracket"}

\* The lexer hands out the tokens of the source in order; the last one is eof.
\* Past eof it returns undefined; pastEof counts those calls.
LexerNextToken(p) ==
  IF p.rest = <<>>
  THEN [tok |-> Undefined, p |-> [p EXCEPT !.pastEof = @ + 1]]
  ELSE [tok |-> Head(p.rest), p |-> [p EXCEPT !.rest = Tail(@)]]

\* new Parser(lexer)
NewParser(toks) ==
  LET p0 == [cur |-> Undefined, peek |-> Undefined, rest |-> toks,
             errors |-> <<>>, thrown |-> "", pastEof |-> 0]
      a == LexerNextToken(p0)
      b == LexerNextToken(a.p)
  IN IF IsUndefined(a.tok)
     THEN [a.p EXCEPT !.thrown = "Error"]
     ELSE [b.p EXCEPT !.cur = a.tok, !.peek = b.tok]

Thrown(p) == p.thrown # ""

NextToken(p) ==
  IF IsUndefined(p.peek)
  THEN [p EXCEPT !.thrown = "No more tokens."]
  ELSE LET n == LexerNextToken(p)
       IN [n.p EXCEPT !.cur = p.peek, !.peek = n.tok]

CurrentTokenIs(p, kind) == p.cur.kind = kind

PeekTokenIs(p, kind) == p.peek.kind = kind

PeekError(p, kind) ==
  [p EXCEPT !.errors = Append(@, <<"expected next token to be", kind, "got", p.peek.kind>>)]

\* expectPeek: ok tells whether the token was there; p is the parser after it.
ExpectPeek(p, kind) ==
  IF PeekTokenIs(p, kind)
  THEN [ok |-> TRUE, p |-> NextToken(p)]
  ELSE [ok |-> FALSE, p |-> PeekError(p, kind)]

CurrentPrecedence(p) == precedences(p.cur.kind)

PeekPrecedence(p) == IF IsUndefined(p.peek) THEN Lowest ELSE precedences(p.peek.kind)

\* What a parse function returns: its node (or undefined) and the parser after
\* it; ok is false when an exception is in flight, and the node is then void.
\* A list of nodes is returned as the node [kind |-> "list", items |-> ...].
Ret(node, p) ==
  IF p.thrown = "" THEN [node |-> node, p |-> p, ok |-> TRUE]
  ELSE [node |-> Undefined, p |-> p, ok |-> FALSE]

None(p) == Ret(Undefined, p)

List(items) == [kind |-> "list", items |-> items]

\* if (statement) statements.push(statement);
Push(list, node) == IF IsUndefined(node) THEN list ELSE Append(list, node)

RECURSIVE ParseStatement(_), ParseExpression(_, _), ParseExpressionLoop(_, _, _)
RECURSIVE ParseBlockStatement(_), ParseBlockLoop(_, _)
RECURSIVE ParseExpressionList(_, _), ParseExpressionListLoop(_, _)
RECURSIVE ParseHashLiteral(_), ParseHashLoop(_, _)
RECURSIVE ParseFunctionLiteral(_), ParseIfExpression(_), ParseGroupedExpression(_)
RECURSIVE ParsePrefixExpression(_), ParseInfixExpression(_, _)
RECURSIVE ParseCallExpression(_, _), ParseIndexExpression(_, _), ParseArrayLiteral(_)
RECURSIVE SkipToSemicolon(_), SkipSemicolons(_)

\* while (!this.currentTokenIs("semicolon")) this.nextToken();
SkipToSemicolon(p) ==
  IF Thrown(p) \/ CurrentTokenIs(p, "semicolon") THEN p
  ELSE SkipToSemicolon(NextToken(p))

\* while (this.peekTokenIs("semicolon")) this.nextToken();
SkipSemicolons(p) ==
  IF Thrown(p) \/ ~PeekTokenIs(p, "semicolon") THEN p
  ELSE SkipSemicolons(NextToken(p))

ParseIdentifier(p) == Ret([kind |-> "identifier", value |-> p.cur.text], p)

ParseIntegerLiteral(p) ==
  IF IsNaN(p.cur.text)
  THEN None([p EXCEPT !.errors = Append(@, <<"could not parse as integer", p.cur.text>>)])
  ELSE Ret([kind |-> "integerLiteral", value |-> Number(p.cur.text)], p)

ParseBooleanLiteral(p) ==
  Ret([kind |-> "booleanLiteral", value |-> (p.cur.kind = "true")], p)

ParseStringLiteral(p) == Ret([kind |-> "stringLiteral", value |-> p.cur.text], p)

\* In the parse functions the steps that call no parse function are LET values
\* read in order; each call of a parse function hands its result to the local
\* operator that holds the rest of the function.
ParseLetStatement(p) ==
  LET e1 == ExpectPeek(p, "identifier")
      e2 == ExpectPeek(e1.p, "assign")
      p3 == NextToken(e2.p)
      Value(r) ==
        IF ~r.ok THEN r
        ELSE IF IsUndefined(r.node)
             THEN None([r.p EXCEPT !.thrown = "Expected new expression"])
        ELSE Ret([kind |-> "let",
                  name |-> [kind |-> "identifier", value |-> e1.p.cur.text],
                  value |-> r.node], SkipToSemicolon(r.p))
  IN IF ~e1.ok THEN None(e1.p)
     ELSE IF ~e2.ok THEN None(e2.p)
     ELSE IF Thrown(p3) THEN None(p3)
     ELSE Value(ParseExpression(p3, Lowest))

ParseReturnStatement(p) ==
  LET p1 == NextToken(p)
      Value(r) ==
        IF ~r.ok THEN r
        ELSE IF IsUndefined(r.node)
             THEN None([r.p EXCEPT !.thrown = "Expected expression"])
        ELSE Ret([kind |-> "returnStatement", returnValue |-> r.node],
                 SkipToSemicolon(r.p))
  IN IF Thrown(p1) THEN None(p1) ELSE Value(ParseExpression(p1, Lowest))

ParseExpressionStatement(p) ==
  LET Expression(r) ==
        IF ~r.ok \/ IsUndefined(r.node) THEN r
        ELSE Ret([kind |-> "expressionStatement", expression |-> r.node],
                 SkipSemicolons(r.p))
  IN Expression(ParseExpression(p, Lowest))

ParseStatement(p) ==
  CASE p.cur.kind = "let" -> ParseLetStatement(p)
    [] p.cur.kind = "return" -> ParseReturnStatement(p)
    [] OTHER -> ParseExpressionStatement(p)

\* The loop of parseProgram: statements is the list built so far, p the parser
\* after the nextToken that ends an iteration.
RECURSIVE ParseProgramLoop(_, _)
ParseProgramLoop(p, statements) ==
  IF Thrown(p) THEN None(p)
  ELSE IF p.cur.kind = "eof" THEN Ret([kind |-> "program", body |-> statements], p)
  ELSE LET Statement(r) ==
             IF ~r.ok THEN r
             ELSE ParseProgramLoop(NextToken(r.p), Push(statements, r.node))
       IN Statement(ParseStatement(p))

ParseProgram(p) == ParseProgramLoop(p, <<>>)

\* The loop of parseBlockStatement.
ParseBlockLoop(p, statements) ==
  IF Thrown(p) THEN None(p)
  ELSE IF CurrentTokenIs(p, "rightBrace") \/ CurrentTokenIs(p, "eof")
       THEN Ret([kind |-> "blockStatement", statements |-> statements], p)
  ELSE LET Statement(r) ==
             IF ~r.ok THEN r
             ELSE ParseBlockLoop(NextToken(r.p), Push(statements, r.node))
       IN Statement(ParseStatement(p))

ParseBlockStatement(p) == ParseBlockLoop(NextToken(p), <<>>)

\* The while loop of parseExpressionList, after the first element.
ParseExpressionListLoop(p, list) ==
  IF ~PeekTokenIs(p, "comma") THEN Ret(List(list), p)
  ELSE LET p1 == NextToken(p)
           p2 == NextToken(p1)
           Element(r) ==
             IF ~r.ok THEN r ELSE ParseExpressionListLoop(r.p, Push(list, r.node))
       IN IF Thrown(p1) THEN None(p1)
          ELSE IF Thrown(p2) THEN None(p2)
          ELSE Element(ParseExpression(p2, Lowest))

ParseExpressionList(p, end) ==
  IF PeekTokenIs(p, end) THEN Ret(List(<<>>), NextToken(p))
  ELSE LET p1 == NextToken(p)
           Close(l, e) == IF ~e.ok THEN None(e.p) ELSE Ret(l.node, e.p)
           Rest(l) == IF ~l.ok THEN l ELSE Close(l, ExpectPeek(l.p, end))
           First(r) ==
             IF ~r.ok \/ IsUndefined(r.node) THEN r
             ELSE Rest(ParseExpressionListLoop(r.p, <<r.node>>))
       IN IF Thrown(p1) THEN None(p1) ELSE First(ParseExpression(p1, Lowest))

ParseArrayLiteral(p) ==
  LET Elements(l) ==
        IF ~l.ok \/ IsUndefined(l.node) THEN l
        ELSE Ret([kind |-> "arrayLiteral", elements |-> l.node.items], l.p)
  IN Elements(ParseExpressionList(p, "rightBracket"))

\* The while loop of parseHashLiteral and the closing brace after it.
ParseHashLoop(p, pairs) ==
  IF PeekTokenIs(p, "rightBrace")
  THEN LET e == ExpectPeek(p, "rightBrace")
       IN IF ~e.ok THEN None(e.p) ELSE Ret([kind |-> "hashLiteral", pairs |-> pairs], e.p)
  ELSE LET p1 == NextToken(p)
           Comma(k, v, e) ==
             IF ~e.ok THEN None(e.p)
             ELSE ParseHashLoop(e.p, Append(pairs, [key |-> k.node, value |-> v.node]))
           Value(k, v) ==
             IF ~v.ok THEN v
             ELSE IF IsUndefined(k.node) \/ IsUndefined(v.node) THEN None(v.p)
             ELSE IF PeekTokenIs(v.p, "rightBrace")
                  THEN ParseHashLoop(v.p, Append(pairs, [key |-> k.node, value |-> v.node]))
             ELSE Comma(k, v, ExpectPeek(v.p, "comma"))
           ValueAt(k, p3) ==
             IF Thrown(p3) THEN None(p3) ELSE Value(k, ParseExpression(p3, Lowest))
           Colon(k, e) == IF ~e.ok THEN None(e.p) ELSE ValueAt(k, NextToken(e.p))
           Key(k) == IF ~k.ok THEN k ELSE Colon(k, ExpectPeek(k.p, "colon"))
       IN IF Thrown(p1) THEN None(p1) ELSE Key(ParseExpression(p1, Lowest))

ParseHashLiteral(p) == ParseHashLoop(p, <<>>)

\* The while loop of parseFunctionParameters.
RECURSIVE ParseFunctionParametersLoop(_, _)
ParseFunctionParametersLoop(p, identifiers) ==
  IF ~PeekTokenIs(p, "comma") THEN Ret(List(identifiers), p)
  ELSE LET p1 == NextToken(p)
           p2 == NextToken(p1)
       IN IF Thrown(p1) THEN None(p1)
          ELSE IF Thrown(p2) THEN None(p2)
          ELSE ParseFunctionParametersLoop(
                 p2, Append(identifiers, [kind |-> "identifier", value |-> p2.cur.text]))

ParseFunctionParameters(p) ==
  IF PeekTokenIs(p, "rightParenthesis") THEN Ret(List(<<>>), NextToken(p))
  ELSE LET p1 == NextToken(p)
           l == ParseFunctionParametersLoop(
                  p1, <<[kind |-> "identifier", value |-> p1.cur.text]>>)
           e == ExpectPeek(l.p, "rightParenthesis")
       IN IF Thrown(p1) THEN None(p1)
          ELSE IF ~l.ok THEN l
          ELSE IF ~e.ok THEN None(e.p)
          ELSE Ret(l.node, e.p)

ParseFunctionLiteral(p) ==
  LET e1 == ExpectPeek(p, "leftParenthesis")
      parameters == ParseFunctionParameters(e1.p)
      e2 == ExpectPeek(parameters.p, "leftBrace")
      Body(b) ==
        IF ~b.ok THEN b
        ELSE Ret([kind |-> "functionLiteral", parameters |-> parameters.node.items,
                  body |-> b.node], b.p)
  IN IF ~e1.ok THEN None(e1.p)
     ELSE IF ~parameters.ok \/ IsUndefined(parameters.node) THEN parameters
     ELSE IF ~e2.ok THEN None(e2.p)
     ELSE Body(ParseBlockStatement(e2.p))

ParsePrefixExpression(p) ==
  LET p1 == NextToken(p)
      Right(r) ==
        IF ~r.ok \/ IsUndefined(r.node) THEN r
        ELSE Ret([kind |-> "prefixExpression", operator |-> p.cur.text,
                  right |-> r.node], r.p)
  IN IF Thrown(p1) THEN None(p1) ELSE Right(ParseExpression(p1, Prefix))

ParseInfixExpression(p, left) ==
  LET p1 == NextToken(p)
      Right(r) ==
        IF ~r.ok \/ IsUndefined(r.node) THEN r
        ELSE Ret([kind |-> "infixExpression", operator |-> p.cur.text,
                  left |-> left, right |-> r.node], r.p)
  IN IF Thrown(p1) THEN None(p1) ELSE Right(ParseExpression(p1, CurrentPrecedence(p)))

\* left.kind on an undefined left is a TypeError.
ParseCallExpression(p, left) ==
  LET Args(a) ==
        IF ~a.ok THEN a
        ELSE IF IsUndefined(left) THEN None([a.p EXCEPT !.thrown = "TypeError"])
        ELSE IF left.kind = "identifier" \/ left.kind = "functionLiteral"
             THEN IF IsUndefined(a.node) THEN a
                  ELSE Ret([kind |-> "callExpression", func |-> left,
                            args |-> a.node.items], a.p)
        ELSE None(a.p)
  IN Args(ParseExpressionList(p, "rightParenthesis"))

ParseIndexExpression(p, left) ==
  LET p1 == NextToken(p)
      Close(r, e) ==
        IF ~e.ok THEN None(e.p)
        ELSE Ret([kind |-> "indexExpression", left |-> left, index |-> r.node], e.p)
      IndexAt(r) ==
        IF ~r.ok \/ IsUndefined(r.node) THEN r
        ELSE Close(r, ExpectPeek(r.p, "rightBracket"))
  IN IF Thrown(p1) THEN None(p1) ELSE IndexAt(ParseExpression(p1, Lowest))

ParseGroupedExpression(p) ==
  LET p1 == NextToken(p)
      Close(r, e) == IF ~e.ok THEN None(e.p) ELSE Ret(r.node, e.p)
      Inner(r) == IF ~r.ok THEN r ELSE Close(r, ExpectPeek(r.p, "rightParenthesis"))
  IN IF Thrown(p1) THEN None(p1) ELSE Inner(ParseExpression(p1, Lowest))

ParseIfExpression(p) ==
  LET e1 == ExpectPeek(p, "leftParenthesis")
      p2 == NextToken(e1.p)
      Alternative(c, cons, alt) ==
        IF ~alt.ok THEN alt
        ELSE Ret([kind |-> "ifExpression", condition |-> c.node,
                  consequence |-> cons.node, alternative |-> alt.node], alt.p)
      ElseBrace(c, cons, e) ==
        IF ~e.ok THEN None(e.p) ELSE Alternative(c, cons, ParseBlockStatement(e.p))
      Else(c, cons, p5) ==
        IF Thrown(p5) THEN None(p5) ELSE ElseBrace(c, cons, ExpectPeek(p5, "leftBrace"))
      Consequence(c, cons) ==
        IF ~cons.ok THEN cons
        ELSE IF ~PeekTokenIs(cons.p, "else")
             THEN Ret([kind |-> "ifExpression", condition |-> c.node,
                       consequence |-> cons.node, alternative |-> Undefined], cons.p)
        ELSE Else(c, cons, NextToken(cons.p))
      Brace(c, e) ==
        IF ~e.ok THEN None(e.p) ELSE Consequence(c, ParseBlockStatement(e.p))
      Paren(c, e) ==
        IF ~e.ok THEN None(e.p) ELSE Brace(c, ExpectPeek(e.p, "leftBrace"))
      Condition(c) ==
        IF ~c.ok \/ IsUndefined(c.node) THEN c
        ELSE Paren(c, ExpectPeek(c.p, "rightParenthesis"))
  IN IF ~e1.ok THEN None(e1.p)
     ELSE IF Thrown(p2) THEN None(p2)
     ELSE Condition(ParseExpression(p2, Lowest))

\* this._prefixParseFunctions.get(kind)()
PrefixParseFunction(p) ==
  CASE p.cur.kind = "integer" -> ParseIntegerLiteral(p)
    [] p.cur.kind \in {"true", "false"} -> ParseBooleanLiteral(p)
    [] p.cur.kind = "string" -> ParseStringLiteral(p)
    [] p.cur.kind = "leftBracket" -> ParseArrayLiteral(p)
    [] p.cur.kind = "leftBrace" -> ParseHashLiteral(p)
    [] p.cur.kind = "function" -> ParseFunctionLiteral(p)
    [] p.cur.kind = "identifier" -> ParseIdentifier(p)
    [] p.cur.kind \in {"bang", "minus"} -> ParsePrefixExpression(p)
    [] p.cur.kind = "leftParenthesis" -> ParseGroupedExpression(p)
    [] p.cur.kind = "if" -> ParseIfExpression(p)

\* this._infixParseFunctions.get(kind)(left)
InfixParseFunction(p, left) ==
  CASE p.cur.kind = "leftParenthesis" -> ParseCallExpression(p, left)
    [] p.cur.kind = "leftBracket" -> ParseIndexExpression(p, left)
    [] OTHER -> ParseInfixExpression(p, left)

\* The while loop of parseExpression: leftExpr may be undefined.
ParseExpressionLoop(p, precedence, leftExpr) ==
  IF Thrown(p) THEN None(p)
  ELSE IF ~PeekTokenIs(p, "semicolon") /\ precedence < PeekPrecedence(p)
       THEN IF IsUndefined(p.peek)
            THEN None([p EXCEPT !.thrown = "PeekKind cannot be null."])
            ELSE IF p.peek.kind \notin InfixKinds THEN Ret(leftExpr, p)
            ELSE LET Infix(r) ==
                       IF r.ok THEN ParseExpressionLoop(r.p, precedence, r.node) ELSE r
                 IN Infix(InfixParseFunction(NextToken(p), leftExpr))
  ELSE Ret(leftExpr, p)

ParseExpression(p, precedence) ==
  IF p.cur.kind \notin PrefixKinds
  THEN None([p EXCEPT !.errors = Append(@, <<"no prefix parse fn for", p.cur.kind>>)])
  ELSE LET Left(r) == IF r.ok THEN ParseExpressionLoop(r.p, precedence, r.node) ELSE r
       IN Left(PrefixParseFunction(p))

\* ----------------------------------------------------------------- objects
Integer(n) == [kind |-> "integer", value |-> n, exact |-> TRUE]

\* The quotient of a JavaScript division that is not a whole number.
Inexact == [kind |-> "integer", value |-> 0, exact |-> FALSE]

Boolean(b) == [kind |-> "boolean", value |-> b]

String(chars) == [kind |-> "string", value |-> chars]

NULL == [kind |-> "null"]

Array(elements) == [kind |-> "array", elements |-> elements]

Hashmap(pairs) == [kind |-> "hashmap", pairs |-> pairs]

Func(parameters, body, e) ==
  [kind |-> "func", parameters |-> parameters, body |-> body, env |-> e]

Builtin(name) == [kind |-> "builtin", name |-> name]

Error(message) == [kind |-> "error", message |-> message]

ReturnValue(value) == [kind |-> "returnValue", value |-> value]

IsError(o) == o.kind = "error"

IsTruthy(o) ==
  CASE o.kind = "boolean" -> o.value
    [] o.kind = "null" -> FALSE
    [] OTHER -> TRUE

\* obj.eq on two objects of the same kind.
Eq(l, r) ==
  CASE l.kind = "integer" -> l.exact /\ r.exact /\ l.value = r.value
    [] l.kind \in {"boolean", "string"} -> l.value = r.value
    [] l.kind = "null" -> TRUE
    [] OTHER -> FALSE

Hashable(o) == o.kind \in {"integer", "boolean", "string"}

\* ------------------------------------------------------------ environments
\* The heap of environments: store[e] is environment e, outer = 0 for none.
NewEnvironment(st, outer) ==
  Append(st, [outer |-> outer, vars |-> [n \in {} |-> Undefined]])

EnvSet(st, e, name, value) ==
  [st EXCEPT ![e].vars = [n \in DOMAIN @ \cup {name} |-> IF n = name THEN value ELSE @[n]]]

RECURSIVE EnvGet(_, _, _)
EnvGet(st, e, name) ==
  IF name \in DOMAIN st[e].vars /\ ~IsUndefined(st[e].vars[name]) THEN st[e].vars[name]
  ELSE IF st[e].outer = 0 THEN Undefined
  ELSE EnvGet(st, st[e].outer, name)

\* ---------------------------------------------------------------- builtins
BuiltinNames == {"len"}

BuiltinCall(name, args) ==
  IF Len(args) # 1 THEN Error(<<"wrong number of arguments">>)
  ELSE IF args[1].kind = "array" THEN Integer(Len(args[1].elements))
  ELSE IF args[1].kind = "string" THEN Integer(Len(args[1].value))
  ELSE Error(<<"argument to len not supported", args[1].kind>>)

\* --------------------------------------------------------------- evaluator
\* The evaluator's machine: the heap, the trace of what it did, and the
\* exception in flight ("" for none).  An outcome is a value and a machine; ok
\* is false when an exception is in flight.
Out(v, m) == [v |-> v, m |-> m, ok |-> TRUE]

Throw(m, what) == [v |-> Undefined, m |-> [m EXCEPT !.thrown = what], ok |-> FALSE]

Log(m, event) == [m EXCEPT !.log = Append(@, event)]

\* Reading a property of the outcome's value (obj.isError(x), x.kind): a
\* TypeError when the value is undefined.
Deref(a) ==
  IF a.ok /\ a.v.kind = "undefined" THEN Throw(a.m, "TypeError") ELSE a

RECURSIVE Evaluate(_, _, _, _), EvaluateExpressions(_, _, _, _, _, _)
RECURSIVE EvaluateBlockStatement(_, _, _, _), EvaluateBlockLoop(_, _, _, _, _, _, _)
RECURSIVE ApplyFunction(_, _, _, _), EvaluateIfExpression(_, _, _, _)
RECURSIVE EvaluateHashLiteral(_, _, _, _, _, _)

\* A binding loop that binds Null to a parameter without an argument.
RECURSIVE BindParametersNull(_, _, _, _, _)
BindParametersNull(st, e, parameters, args, p) ==
  IF p > Len(parameters) THEN st
  ELSE BindParametersNull(
         EnvSet(st, e, parameters[p].value, IF p <= Len(args) THEN args[p] ELSE NULL),
         e, parameters, args, p + 1)

RECURSIVE BindParameters(_, _, _, _, _)
BindParameters(st, e, parameters, args, p) ==
  IF p > Len(parameters) THEN st
  ELSE BindParameters(
         EnvSet(st, e, parameters[p].value, IF p <= Len(args) THEN args[p] ELSE Undefined),
         e, parameters, args, p + 1)

\* An extension that binds the parameters in the captured environment itself.
ExtendIntoCaptured(func, args, st) ==
  BindParameters(NewEnvironment(st, func.env), func.env, func.parameters, args, 1)

\* The store with the new child environment, which is its last one.
ExtendFunctionEnvironment(func, args, st) ==
  BindParameters(NewEnvironment(st, func.env), Len(st) + 1, func.parameters, args, 1)

UnwrapReturnValue(a) ==
  LET b == Deref(a)
  IN IF b.ok /\ b.v.kind = "returnValue" THEN Out(b.v.value, b.m) ELSE b

\* A lookup that consults the builtins before the environment chain.
EvaluateIdentifierBuiltinsFirst(node, e, m) ==
  IF node.value \in BuiltinNames THEN Out(Builtin(node.value), m)
  ELSE IF ~IsUndefined(EnvGet(m.store, e, node.value))
       THEN Out(EnvGet(m.store, e, node.value), m)
  ELSE Out(Error(<<"identifier not found", node.value>>), m)

EvaluateIdentifier(node, e, m) ==
  LET value == EnvGet(m.store, e, node.value)
  IN IF ~IsUndefined(value) THEN Out(value, m)
     ELSE IF node.value \in BuiltinNames THEN Out(Builtin(node.value), m)
     ELSE Out(Error(<<"identifier not found", node.value>>), m)

\* A bang for which the integer zero is falsy as well.
EvaluateBangZeroIsFalsy(right) ==
  CASE right.kind = "boolean" -> IF right.value THEN Boolean(FALSE) ELSE Boolean(TRUE)
    [] right.kind = "null" -> Boolean(TRUE)
    [] right.kind = "integer" -> Boolean(right.value = 0)
    [] OTHER -> Boolean(FALSE)

EvaluateBangOperatorExpression(right) ==
  CASE right.kind = "boolean" -> IF right.value THEN Boolean(FALSE) ELSE Boolean(TRUE)
    [] right.kind = "null" -> Boolean(TRUE)
    [] OTHER -> Boolean(FALSE)

EvaluateMinusOperatorExpression(right) ==
  IF right.kind # "integer" THEN Error(<<"unknown operator", "-", right.kind>>)
  ELSE IF right.exact THEN Integer(-right.value) ELSE Inexact

EvaluatePrefixExpression(operator, right) ==
  CASE operator = "!" -> EvaluateBangOperatorExpression(right)
    [] operator = "-" -> EvaluateMinusOperatorExpression(right)
    [] OTHER -> Error(<<"unknown operator", operator, right.kind>>)

EvaluateStringInfixExpression(operator, left, right) ==
  IF operator # "+" THEN Error(<<"unknown operator", left.kind, operator, right.kind>>)
  ELSE String(left.value \o right.value)

\* JavaScript's / on numbers: whole quotients stay integers, the others
\* (and a division by zero) are numbers that are no integer.
Divide(a, b) ==
  LET abs(n) == IF n < 0 THEN -n ELSE n
  IN IF b # 0 /\ abs(a) % abs(b) = 0
     THEN Integer((IF (a < 0) = (b < 0) THEN 1 ELSE -1) * (abs(a) \div abs(b)))
     ELSE Inexact

EvaluateIntegerInfixExpression(operator, left, right) ==
  LET exact == left.exact /\ right.exact
  IN CASE operator = "+" -> IF exact THEN Integer(left.value + right.value) ELSE Inexact
       [] operator = "-" -> IF exact THEN Integer(left.value - right.value) ELSE Inexact
       [] operator = "*" -> IF exact THEN Integer(left.value * right.value) ELSE Inexact
       [] operator = "/" -> IF exact THEN Divide(left.value, right.value) ELSE Inexact
       [] operator = ">" -> Boolean(exact /\ left.value > right.value)
       [] operator = "<" -> Boolean(exact /\ left.value < right.value)
       [] OTHER -> Error(<<"unknown operator", left.kind, operator, right.kind>>)

EvaluateInfixExpression(operator, left, right) ==
  IF left.kind # right.kind
  THEN Error(<<"type mismatch", left.kind, operator, right.kind>>)
  ELSE IF operator = "==" THEN Boolean(Eq(left, right))
  ELSE IF operator = "!=" THEN Boolean(~Eq(left, right))
  ELSE IF left.kind = "integer" /\ right.kind = "integer"
       THEN EvaluateIntegerInfixExpression(operator, left, right)
  ELSE IF left.kind = "string" /\ right.kind = "string"
       THEN EvaluateStringInfixExpression(operator, left, right)
  ELSE Error(<<"unknown operator", left.kind, operator, right.kind>>)

\* For an index that is no whole number (not a number at all, or a fraction
\* within the bounds) neither comparison holds and array.elements[i] is
\* undefined.
EvaluateArrayIndexExpression(array, index) ==
  LET i == index.value
      max == Len(array.elements) - 1
  IN IF ~index.exact THEN Undefined
     ELSE IF i < 0 \/ i > max THEN NULL
     ELSE array.elements[i + 1]

\* hashmap.pairs.get(key): the last pair written under the key.
RECURSIVE HashGet(_, _, _)
HashGet(pairs, index, i) ==
  IF i = 0 THEN Undefined
  ELSE IF pairs[i].key.kind = index.kind /\ Eq(pairs[i].key, index) THEN pairs[i]
  ELSE HashGet(pairs, index, i - 1)

EvaluateHashIndexExpression(hashmap, index) ==
  IF ~Hashable(index) THEN Error(<<"unusable as hash key", index.kind>>)
  ELSE LET pair == HashGet(hashmap.pairs, index, Len(hashmap.pairs))
       IN IF IsUndefined(pair) THEN NULL ELSE pair.value

EvaluateIndexExpression(left, index) ==
  IF left.kind = "array" /\ index.kind = "integer"
  THEN EvaluateArrayIndexExpression(left, index)
  ELSE IF left.kind = "hashmap" THEN EvaluateHashIndexExpression(left, index)
  ELSE Error(<<"index operator not supported", left.kind>>)

\* In the evaluator each call of evaluate hands its outcome to the local
\* operator that holds the rest of the function.
\* The loop of evaluateExpressions: i is the next expression, acc the list so
\* far; the outcome's value is the list of objects.
EvaluateExpressions(expressions, i, acc, e, m, d) ==
  IF i > Len(expressions) THEN Out(acc, m)
  ELSE LET Evaluated(a) ==
             IF ~a.ok THEN a
             ELSE IF IsError(a.v) THEN Out(<<a.v>>, a.m)
             ELSE EvaluateExpressions(expressions, i + 1, Append(acc, a.v), e, a.m, d)
       IN Evaluated(Deref(Evaluate(expressions[i], e, m, d)))

\* The loop of evaluateHashLiteral: i is the next pair, pairs the list so far.
EvaluateHashLiteral(node, i, pairs, e, m, d) ==
  IF i > Len(node.pairs) THEN Out(Hashmap(pairs), m)
  ELSE LET Value(k, v) ==
             IF ~v.ok \/ IsError(v.v) THEN v
             ELSE EvaluateHashLiteral(
                    node, i + 1, Append(pairs, [key |-> k.v, value |-> v.v]), e, v.m, d)
           Key(k) ==
             IF ~k.ok \/ IsError(k.v) THEN k
             ELSE Value(k, Deref(Evaluate(node.pairs[i].value, e, k.m, d)))
       IN Key(Deref(Evaluate(node.pairs[i].key, e, m, d)))

EvaluateIfExpression(node, e, m, d) ==
  LET Condition(c) ==
        IF ~c.ok \/ IsError(c.v) THEN c
        ELSE IF IsTruthy(c.v) THEN Evaluate(node.consequence, e, c.m, d)
        ELSE IF ~IsUndefined(node.alternative) THEN Evaluate(node.alternative, e, c.m, d)
        ELSE Out(NULL, c.m)
  IN Condition(Deref(Evaluate(node.condition, e, m, d)))

\* The trace entries of a block: act names one evaluation of the block.
StmtBegin(m, act, i) == Log(m, [ev |-> "stmt", act |-> act, i |-> i])

StmtEnd(m, act, i, res) == Log(m, [ev |-> "stmtEnd", act |-> act, i |-> i, res |-> res])

BlockEnd(m, act, res) == Log(m, [ev |-> "blockEnd", act |-> act, res |-> res])

\* A block loop that runs every statement, whatever the results.
RECURSIVE EvaluateBlockLoopThrough(_, _, _, _, _, _, _)
EvaluateBlockLoopThrough(node, i, last, act, e, m, d) ==
  IF i > Len(node.statements) THEN Out(last, BlockEnd(m, act, last))
  ELSE LET Statement(b) ==
             IF ~b.ok THEN b
             ELSE EvaluateBlockLoopThrough(
                    node, i + 1, b.v, act, e, StmtEnd(b.m, act, i, b.v), d)
       IN Statement(Deref(Evaluate(node.statements[i], e, StmtBegin(m, act, i), d)))

\* The for loop of evaluateBlockStatement from statement i on.
EvaluateBlockLoop(node, i, last, act, e, m, d) ==
  IF i > Len(node.statements) THEN Out(last, BlockEnd(m, act, last))
  ELSE LET Statement(b) ==
             IF ~b.ok THEN b
             ELSE IF b.v.kind = "returnValue" \/ b.v.kind = "error"
                  THEN Out(b.v, BlockEnd(StmtEnd(b.m, act, i, b.v), act, b.v))
             ELSE EvaluateBlockLoop(node, i + 1, b.v, act, e, StmtEnd(b.m, act, i, b.v), d)
       IN Statement(Deref(Evaluate(node.statements[i], e, StmtBegin(m, act, i), d)))

EvaluateBlockStatement(node, e, m, d) ==
  EvaluateBlockLoop(node, 1, Undefined, Len(m.log) + 1, e,
                    Log(m, [ev |-> "block", env |-> e]), d)

\* The "call" entry of the trace is the activation; before is the heap at the
\* call, after the heap at the return.
ApplyFunction(func, args, m, d) ==
  CASE func.kind = "builtin" -> Out(BuiltinCall(func.name, args), m)
    [] func.kind = "func" ->
         IF d >= MaxCallDepth THEN Throw(m, "RangeError")
         ELSE LET st == ExtendFunctionEnvironment(func, args, m.store)
                  Returned(r) ==
                    IF ~r.ok THEN r
                    ELSE Out(r.v, Log(r.m, [ev |-> "callEnd", act |-> Len(m.log) + 1,
                                            res |-> r.v, after |-> r.m.store]))
              IN Returned(UnwrapReturnValue(
                   Evaluate(func.body, Len(st),
                            Log([m EXCEPT !.store = st],
                                [ev |-> "call", func |-> func, args |-> args,
                                 child |-> Len(st), before |-> m.store]),
                            d + 1)))
    [] OTHER -> Out(Error(<<"not a function", func.kind>>), m)

\* A function literal that captures a copy of the environment as it is now.
FunctionLiteralSnapshot(node, e, m) ==
  Out(Func(node.parameters, node.body, Len(m.store) + 1),
      [m EXCEPT !.store = Append(@, @[e])])

\* case "functionLiteral": the function holds the environment it is made in.
FunctionLiteral(node, e, m) == Out(Func(node.parameters, node.body, e), m)

\* The trace entry of an infix expression: its operands and what it returned.
InfixDone(left, right, res) ==
  Out(res, Log(right.m, [ev |-> "infix", left |-> left.v, right |-> right.v,
                         res |-> res]))

Evaluate(node, e, m, d) ==
  CASE node.kind = "blockStatement" -> EvaluateBlockStatement(node, e, m, d)
    [] node.kind = "expressionStatement" -> Evaluate(node.expression, e, m, d)
    [] node.kind = "integerLiteral" -> Out(Integer(node.value), m)
    [] node.kind = "booleanLiteral" -> Out(Boolean(node.value), m)
    [] node.kind = "stringLiteral" -> Out(String(node.value), m)
    [] node.kind = "arrayLiteral" ->
         LET Elements(l) ==
               IF ~l.ok THEN l
               ELSE IF Len(l.v) = 1 /\ IsError(l.v[1]) THEN Out(l.v[1], l.m)
               ELSE Out(Array(l.v), l.m)
         IN Elements(EvaluateExpressions(node.elements, 1, <<>>, e, m, d))
    [] node.kind = "hashLiteral" -> EvaluateHashLiteral(node, 1, <<>>, e, m, d)
    [] node.kind = "prefixExpression" ->
         LET Right(right) ==
               IF ~right.ok \/ IsError(right.v) THEN right
               ELSE Out(EvaluatePrefixExpression(node.operator, right.v), right.m)
         IN Right(Deref(Evaluate(node.right, e, m, d)))
    [] node.kind = "infixExpression" ->
         LET Right(left, right) ==
               IF ~right.ok THEN right
               ELSE IF IsError(right.v) THEN InfixDone(left, right, left.v)
               ELSE InfixDone(left, right,
                              EvaluateInfixExpression(node.operator, left.v, right.v))
             Left(left) ==
               IF ~left.ok \/ IsError(left.v) THEN left
               ELSE Right(left, Deref(Evaluate(node.right, e, left.m, d)))
         IN Left(Deref(Evaluate(node.left, e, m, d)))
    [] node.kind = "ifExpression" -> EvaluateIfExpression(node, e, m, d)
    [] node.kind = "returnStatement" ->
         LET Value(value) ==
               IF ~value.ok \/ IsError(value.v) THEN value
               ELSE Out(ReturnValue(value.v),
                        Log(value.m, [ev |-> "return", value |-> value.v]))
         IN Value(Deref(Evaluate(node.returnValue, e, m, d)))
    [] node.kind = "let" ->
         LET Value(value) ==
               IF ~value.ok \/ IsError(value.v) THEN value
               ELSE Out(value.v,
                        Log([value.m EXCEPT
                               !.store = EnvSet(@, e, node.name.value, value.v)],
                            [ev |-> "set", env |-> e, name |-> node.name.value,
                             value |-> value.v]))
         IN Value(Deref(Evaluate(node.value, e, m, d)))
    [] node.kind = "identifier" -> EvaluateIdentifier(node, e, m)
    [] node.kind = "functionLiteral" -> FunctionLiteral(node, e, m)
    [] node.kind = "callExpression" ->
         LET Args(func, args) ==
               IF ~args.ok THEN args
               ELSE IF Len(args.v) = 1 /\ IsError(args.v[1]) THEN Out(args.v[1], args.m)
               ELSE ApplyFunction(func.v, args.v, args.m, d)
             Callee(func) ==
               IF ~func.ok \/ IsError(func.v) THEN func
               ELSE Args(func, EvaluateExpressions(node.args, 1, <<>>, e, func.m, d))
         IN Callee(Deref(Evaluate(node.func, e, m, d)))
    [] node.kind = "indexExpression" ->
         LET IndexAt(left, index) ==
               IF ~index.ok \/ IsError(index.v) THEN index
               ELSE Out(EvaluateIndexExpression(left.v, index.v), index.m)
             Left(left) ==
               IF ~left.ok \/ IsError(left.v) THEN left
               ELSE IndexAt(left, Deref(Evaluate(node.index, e, left.m, d)))
         IN Left(Deref(Evaluate(node.left, e, m, d)))
    [] node.kind = "undefined" -> Throw(m, "TypeError")
    [] OTHER -> Throw(m, "Error: unexpected node")

\* ----------------------------------------------------------------- sources
TLet == Tk("let", "let")
TReturn == Tk("return", "return")
TFn == Tk("function", "fn")
TIf == Tk("if", "if")
TElse == Tk("else", "else")
TTrue == Tk("true", "true")
TFalse == Tk("false", "false")
TAssign == Tk("assign", "=")
TSemi == Tk("semicolon", ";")
TComma == Tk("comma", ",")
TColon == Tk("colon", ":")
TLParen == Tk("leftParenthesis", "(")
TRParen == Tk("rightParenthesis", ")")
TLBrace == Tk("leftBrace", "{")
TRBrace == Tk("rightBrace", "}")
TLBracket == Tk("leftBracket", "[")
TRBracket == Tk("rightBracket", "]")
TBang == Tk("bang", "!")
TPlus == Tk("plus", "+")
TMinus == Tk("minus", "-")
TAsterisk == Tk("asterisk", "*")
TSlash == Tk("slash", "/")
TEquals == Tk("equals", "==")
TNotEquals == Tk("notEquals", "!=")
TLessThen == Tk("lessThen", "<")
TGreaterThen == Tk("greaterThen", ">")
TId(name) == Tk("identifier", name)

\* The decimal digits of a natural number, as the lexer reads them.
RECURSIVE Digits(_)
Digits(n) == IF n < 10 THEN <<n>> ELSE Digits(n \div 10) \o <<n % 10>>

TInt(n) == Tk("integer", Digits(n))
TStr(chars) == Tk("string", chars)

BinaryOperators ==
  {TEquals, TNotEquals, TLessThen, TGreaterThen, TPlus, TMinus, TAsterisk, TSlash}

PrefixOperators == {TBang, TMinus}

\* Source text is written here token by token; Src appends the eof token.
Src(toks) == toks \o <<EOF>>

\* a op1 b op2 c
InfixSource(op1, op2) == Src(<<TId("a"), op1, TId("b"), op2, TId("c")>>)

\* pre a op b
PrefixInfixSource(pre, op) == Src(<<pre, TId("a"), op, TId("b")>>)

\* pre a [ b ]
PrefixIndexSource(pre) == Src(<<pre, TId("a"), TLBracket, TId("b"), TRBracket>>)

PrecedenceSources ==
  {InfixSource(op1, op2) : op1 \in BinaryOperators, op2 \in BinaryOperators}
    \cup {PrefixInfixSource(pre, op) : pre \in PrefixOperators, op \in BinaryOperators}
    \cup {PrefixIndexSource(pre) : pre \in PrefixOperators}

\* let f = fn(x) { fn(y) { x + y } }; f(2)(3)
ClosureSource ==
  Src(<<TLet, TId("f"), TAssign, TFn, TLParen, TId("x"), TRParen, TLBrace,
        TFn, TLParen, TId("y"), TRParen, TLBrace, TId("x"), TPlus, TId("y"), TRBrace,
        TRBrace, TSemi,
        TId("f"), TLParen, TInt(2), TRParen, TLParen, TInt(3), TRParen>>)

\* let x = v1; let f = fn() { x }; let x = v2; f()
RebindSource(v1, v2) ==
  Src(<<TLet, TId("x"), TAssign, TInt(v1), TSemi,
        TLet, TId("f"), TAssign, TFn, TLParen, TRParen, TLBrace, TId("x"), TRBrace, TSemi,
        TLet, TId("x"), TAssign, TInt(v2), TSemi,
        TId("f"), TLParen, TRParen>>)

\* let f = fn() { x }; let x = v; f()
LateBindSource(v) ==
  Src(<<TLet, TId("f"), TAssign, TFn, TLParen, TRParen, TLBrace, TId("x"), TRBrace, TSemi,
        TLet, TId("x"), TAssign, TInt(v), TSemi,
        TId("f"), TLParen, TRParen>>)

\* let f = fn(n) { if (n < 1) { n } else { f(n - 1) } }; f(v)
RecursiveSource(v) ==
  Src(<<TLet, TId("f"), TAssign, TFn, TLParen, TId("n"), TRParen, TLBrace,
        TIf, TLParen, TId("n"), TLessThen, TInt(1), TRParen,
        TLBrace, TId("n"), TRBrace,
        TElse, TLBrace, TId("f"), TLParen, TId("n"), TMinus, TInt(1), TRParen, TRBrace,
        TRBrace, TSemi,
        TId("f"), TLParen, TInt(v), TRParen>>)

ClosureSources ==
  {ClosureSource}
    \cup {RebindSource(v1, v2) : v1 \in 0..MaxInt, v2 \in 0..MaxInt}
    \cup {LateBindSource(v) : v \in 0..MaxInt}
    \cup {RecursiveSource(v) : v \in 0..MaxRecursion}

\* let x = 1;
StmtLetX == <<TLet, TId("x"), TAssign, TInt(1), TSemi>>

\* let x = x + 1;
StmtIncX == <<TLet, TId("x"), TAssign, TId("x"), TPlus, TInt(1), TSemi>>

\* let f = fn(x) { let y = x; if (y < 2) { return y; } let x = 0; x };
StmtDefF ==
  <<TLet, TId("f"), TAssign, TFn, TLParen, TId("x"), TRParen, TLBrace,
    TLet, TId("y"), TAssign, TId("x"), TSemi,
    TIf, TLParen, TId("y"), TLessThen, TInt(2), TRParen,
    TLBrace, TReturn, TId("y"), TSemi, TRBrace,
    TLet, TId("x"), TAssign, TInt(0), TSemi,
    TId("x"), TRBrace, TSemi>>

\* f(x);
StmtCallF == <<TId("f"), TLParen, TId("x"), TRParen, TSemi>>

\* let g = fn() { if (x == 1) { z; let x = 5; } x };
StmtDefG ==
  <<TLet, TId("g"), TAssign, TFn, TLParen, TRParen, TLBrace,
    TIf, TLParen, TId("x"), TEquals, TInt(1), TRParen,
    TLBrace, TId("z"), TSemi, TLet, TId("x"), TAssign, TInt(5), TSemi, TRBrace,
    TId("x"), TRBrace, TSemi>>

\* g();
StmtCallG == <<TId("g"), TLParen, TRParen, TSemi>>

\* return x;
StmtReturnX == <<TReturn, TId("x"), TSemi>>

StatementPool ==
  <<StmtLetX, StmtIncX, StmtDefF, StmtCallF, StmtDefG, StmtCallG, StmtReturnX>>

\* The programs of up to n statements of the pool, the empty one included.
RECURSIVE PoolPrograms(_)
PoolPrograms(n) ==
  IF n = 0 THEN {<<>>}
  ELSE LET shorter == PoolPrograms(n - 1)
       IN shorter \cup {q \o StatementPool[i] : q \in shorter, i \in 1..Len(StatementPool)}

PoolSources == {Src(q) : q \in PoolPrograms(MaxStmts)}

\* 1 + x
ErrRightSource == Src(<<TInt(1), TPlus, TId("x")>>)

\* x + 1
ErrLeftSource == Src(<<TId("x"), TPlus, TInt(1)>>)

\* x + y
ErrBothSource == Src(<<TId("x"), TPlus, TId("y")>>)

\* let x = ;
LetNoValueSource == Src(<<TLet, TId("x"), TAssign, TSemi>>)

\* let x = 5
LetNoSemicolonSource == Src(<<TLet, TId("x"), TAssign, TInt(5)>>)

\* return ;
ReturnNoValueSource == Src(<<TReturn, TSemi>>)

\* return 5
ReturnNoSemicolonSource == Src(<<TReturn, TInt(5)>>)

\* if (x) { 1
UnterminatedBlockSource == Src(<<TIf, TLParen, TId("x"), TRParen, TLBrace, TInt(1)>>)

\* let 5; 6;
LetNoNameSource == Src(<<TLet, TInt(5), TSemi, TInt(6), TSemi>>)

\* f(1)(2)(3);
CallOfCallSource ==
  Src(<<TId("f"), TLParen, TInt(1), TRParen, TLParen, TInt(2), TRParen,
        TLParen, TInt(3), TRParen, TSemi>>)

\* f(1)(2) + 3;
CallOfCallPlusSource ==
  Src(<<TId("f"), TLParen, TInt(1), TRParen, TLParen, TInt(2), TRParen,
        TPlus, TInt(3), TSemi>>)

\* return if (true) { return 1; };
ReturnIfReturnSource ==
  Src(<<TReturn, TIf, TLParen, TTrue, TRParen,
        TLBrace, TReturn, TInt(1), TSemi, TRBrace, TSemi>>)

\* let x = if (true) { return 1; }; x
LetIfReturnSource ==
  Src(<<TLet, TId("x"), TAssign, TIf, TLParen, TTrue, TRParen,
        TLBrace, TReturn, TInt(1), TSemi, TRBrace, TSemi, TId("x")>>)

\* [if (true) { return 1; }]
ArrayIfReturnSource ==
  Src(<<TLBracket, TIf, TLParen, TTrue, TRParen,
        TLBrace, TReturn, TInt(1), TSemi, TRBrace, TRBracket>>)

\* if (true) { if (true) { return 1; } 2 } 3
NestedReturnSource ==
  Src(<<TIf, TLParen, TTrue, TRParen, TLBrace,
        TIf, TLParen, TTrue, TRParen, TLBrace, TReturn, TInt(1), TSemi, TRBrace,
        TInt(2), TRBrace, TInt(3)>>)

\* if (true) { !if (true) { return 1; }; 2 }
BangIfReturnSource ==
  Src(<<TIf, TLParen, TTrue, TRParen, TLBrace,
        TBang, TIf, TLParen, TTrue, TRParen, TLBrace, TReturn, TInt(1), TSemi, TRBrace,
        TSemi, TInt(2), TRBrace>>)

\* let f = fn() { if (true) { if (true) { return 1; } } 2 }; f(); 3
FnNestedReturnSource ==
  Src(<<TLet, TId("f"), TAssign, TFn, TLParen, TRParen, TLBrace,
        TIf, TLParen, TTrue, TRParen, TLBrace,
        TIf, TLParen, TTrue, TRParen, TLBrace, TReturn, TInt(1), TSemi, TRBrace,
        TRBrace, TInt(2), TRBrace, TSemi,
        TId("f"), TLParen, TRParen, TSemi, TInt(3)>>)

\* if (true) {}
EmptyIfSource == Src(<<TIf, TLParen, TTrue, TRParen, TLBrace, TRBrace>>)

\* if (false) {}
FalseIfSource == Src(<<TIf, TLParen, TFalse, TRParen, TLBrace, TRBrace>>)

\* fn() {}()
EmptyFnCallSource ==
  Src(<<TFn, TLParen, TRParen, TLBrace, TRBrace, TLParen, TRParen>>)

\* 5 + true; let x = 1;
TypeMismatchSource ==
  Src(<<TInt(5), TPlus, TTrue, TSemi, TLet, TId("x"), TAssign, TInt(1), TSemi>>)

\* let x = 1; let f = fn(x) { let y = x; let x = 0; y }; f(2); x
ShadowSource ==
  Src(<<TLet, TId("x"), TAssign, TInt(1), TSemi,
        TLet, TId("f"), TAssign, TFn, TLParen, TId("x"), TRParen, TLBrace,
        TLet, TId("y"), TAssign, TId("x"), TSemi,
        TLet, TId("x"), TAssign, TInt(0), TSemi, TId("y"), TRBrace, TSemi,
        TId("f"), TLParen, TInt(2), TRParen, TSemi, TId("x")>>)

\* f(1)(2)
CallOfCallOnceSource ==
  Src(<<TId("f"), TLParen, TInt(1), TRParen, TLParen, TInt(2), TRParen>>)

\* fn(1) { 1 }
IntegerParameterSource ==
  Src(<<TFn, TLParen, TInt(1), TRParen, TLBrace, TInt(1), TRBrace>>)

\* fn(x, if) { x }
KeywordParameterSource ==
  Src(<<TFn, TLParen, TId("x"), TComma, TIf, TRParen, TLBrace, TId("x"), TRBrace>>)

\* fn(x,) { x }
TrailingCommaSource ==
  Src(<<TFn, TLParen, TId("x"), TComma, TRParen, TLBrace, TId("x"), TRBrace>>)

SpecialSources ==
  {CallOfCallOnceSource, IntegerParameterSource, KeywordParameterSource,
   TrailingCommaSource, ErrRightSource, ErrLeftSource, ErrBothSource, LetNoValueSource, LetNoSemicolonSource,
   ReturnNoValueSource, ReturnNoSemicolonSource, UnterminatedBlockSource,
   LetNoNameSource, CallOfCallSource, CallOfCallPlusSource, ReturnIfReturnSource,
   LetIfReturnSource, ArrayIfReturnSource, NestedReturnSource, BangIfReturnSource,
   FnNestedReturnSource, EmptyIfSource, FalseIfSource, EmptyFnCallSource,
   TypeMismatchSource, ShadowSource}

Sources == PrecedenceSources \cup ClosureSources \cup PoolSources \cup SpecialSources

\* ------------------------------------------------------------ state machine
\* tokens: the source; parser: the Parser object; program: what parseProgram
\* returned; idx: the statement evaluateProgram's loop is at; result: its
\* result variable, then what evaluate returned; store, log: the evaluator's
\* heap and trace; thrown: the exception that ended evaluate ("" for none).
Init ==
  /\ tokens \in Sources
  /\ parser = NewParser(tokens)
  /\ phase = "constructed"
  /\ program = Undefined
  /\ idx = 0
  /\ result = Undefined
  /\ store = <<>>
  /\ log = <<>>
  /\ thrown = ""

\* parser.parseProgram()
Parse ==
  /\ phase = "constructed"
  /\ LET Returned(r) ==
           /\ parser' = r.p
           /\ program' = r.node
           /\ phase' = IF Thrown(r.p) THEN "parseThrew" ELSE "parsed"
     IN Returned(ParseProgram(parser))
  /\ UNCHANGED <<tokens, idx, result, store, log, thrown>>

\* The caller finds parser.errors non-empty and does not evaluate.
Refuse ==
  /\ phase = "parsed"
  /\ parser.errors # <<>>
  /\ phase' = "refused"
  /\ UNCHANGED <<tokens, parser, program, idx, result, store, log, thrown>>

\* evaluate(program, new Environment()): evaluateProgram is entered.
Begin ==
  /\ phase = "parsed"
  /\ parser.errors = <<>>
  /\ store' = NewEnvironment(<<>>, 0)
  /\ idx' = 1
  /\ phase' = "running"
  /\ UNCHANGED <<tokens, parser, program, result, log, thrown>>

\* One iteration of evaluateProgram's loop; its statements are traced as those
\* of activation 0.
Step ==
  /\ phase = "running"
  /\ idx <= Len(program.body)
  /\ LET Assigned(a) ==
           IF ~a.ok
           THEN /\ phase' = "threw"
                /\ thrown' = a.m.thrown
                /\ store' = a.m.store
                /\ log' = a.m.log
                /\ UNCHANGED <<result, idx>>
           ELSE /\ store' = a.m.store
                /\ log' = StmtEnd(a.m, 0, idx, a.v).log
                /\ result' = IF a.v.kind = "returnValue" THEN a.v.value ELSE a.v
                /\ phase' = IF a.v.kind \in {"returnValue", "error"}
                            THEN "done" ELSE "running"
                /\ idx' = idx + 1
                /\ UNCHANGED thrown
     IN Assigned(Deref(Evaluate(
          program.body[idx], 1,
          StmtBegin([store |-> store, log |-> log, thrown |-> ""], 0, idx), 0)))
  /\ UNCHANGED <<tokens, parser, program>>

\* The loop is over: return result.
Return ==
  /\ phase = "running"
  /\ idx > Len(program.body)
  /\ phase' = "done"
  /\ UNCHANGED <<tokens, parser, program, idx, result, store, log, thrown>>

Next == Parse \/ Refuse \/ Begin \/ Step \/ Return

Spec == Init /\ [][Next]_vars

\* ------------------------------------------------------------------ claims
\* The positions of the trace that hold an event of the given kind.
Events(ev) == {i \in 1..Len(log) : log[i].ev = ev}

\* C1: whenever the right operand of an infix expression evaluates to an Error
\* object (its left operand did not), evaluate returns that same Error object.
C1_InfixReturnsRightError ==
  \A i \in Events("infix") : IsError(log[i].right) => log[i].res = log[i].right

\* C2: the source `let f = fn(x) { fn(y) { x + y } }; f(2)(3)` leaves the
\* parser's error list empty and evaluates to Integer 5.
C2_ClosureYieldsFive ==
  (tokens = ClosureSource /\ phase \in {"done", "threw", "refused", "parseThrew"})
    => (phase = "done" /\ parser.errors = <<>> /\ result = Integer(5))

\* C3: parseProgram returns a Program without throwing, for every token
\* sequence ending in eof.
C3_ParseProgramNeverThrows ==
  phase # "constructed" => (phase # "parseThrew" /\ program.kind = "program")

\* The trees the precedence claim speaks of.
Operand(name) == [kind |-> "identifier", value |-> name]

Binary(op, left, right) ==
  [kind |-> "infixExpression", operator |-> op.text, left |-> left, right |-> right]

Unary(op, right) == [kind |-> "prefixExpression", operator |-> op.text, right |-> right]

Indexed(left, index) == [kind |-> "indexExpression", left |-> left, index |-> index]

OneExpression(expression) ==
  <<[kind |-> "expressionStatement", expression |-> expression]>>

\* The order Equals < LessGreater < Sum < Product of the binary operators.
Tier(op) ==
  CASE op \in {TEquals, TNotEquals} -> 1
    [] op \in {TLessThen, TGreaterThen} -> 2
    [] op \in {TPlus, TMinus} -> 3
    [] op \in {TAsterisk, TSlash} -> 4

\* C4: `a op1 b op2 c` parses to ((a op1 b) op2 c) when op1 binds at least as
\* tightly as op2 and to (a op1 (b op2 c)) otherwise; a prefix operator binds
\* tighter than every binary operator, and an index tighter than a prefix
\* operator.
C4_PrecedenceAndAssociativity ==
  (phase # "constructed" /\ tokens \in PrecedenceSources) =>
    /\ phase # "parseThrew"
    /\ parser.errors = <<>>
    /\ \A op1 \in BinaryOperators, op2 \in BinaryOperators :
         tokens = InfixSource(op1, op2) =>
           program.body =
             OneExpression(
               IF Tier(op1) >= Tier(op2)
               THEN Binary(op2, Binary(op1, Operand("a"), Operand("b")), Operand("c"))
               ELSE Binary(op1, Operand("a"), Binary(op2, Operand("b"), Operand("c"))))
    /\ \A pre \in PrefixOperators, op \in BinaryOperators :
         tokens = PrefixInfixSource(pre, op) =>
           program.body =
             OneExpression(Binary(op, Unary(pre, Operand("a")), Operand("b")))
    /\ \A pre \in PrefixOperators :
         tokens = PrefixIndexSource(pre) =>
           program.body =
             OneExpression(Unary(pre, Indexed(Operand("a"), Operand("b"))))

\* `a + b * c` has been parsed.
C4_Witness ==
  /\ tokens = InfixSource(TPlus, TAsterisk)
  /\ phase = "parsed"
  /\ program.body[1].expression.right.kind = "infixExpression"

\* C5: once a statement of a program or block evaluates to an Error object,
\* that Error is the result of the program or block and no later statement of
\* it is evaluated: for the program nothing more is traced, for a block the
\* next trace entry is its end with that Error and none of its statements
\* starts afterwards.
C5_ErrorStopsProgramAndBlock ==
  \A i \in Events("stmtEnd") :
    IsError(log[i].res) =>
      IF log[i].act = 0
      THEN i = Len(log) /\ phase = "done" /\ result = log[i].res
      ELSE /\ i < Len(log)
           /\ log[i + 1] = [ev |-> "blockEnd", act |-> log[i].act, res |-> log[i].res]
           /\ \A j \in Events("stmt") : j > i => log[j].act # log[i].act

\* let x = 1; let g = fn() { if (x == 1) { z; let x = 5; } x }; g(); has run:
\* the statement z of the inner block failed, with let x = 5 still to come.
C5_Witness ==
  /\ tokens = Src(StmtLetX \o StmtDefG \o StmtCallG)
  /\ phase = "done"
  /\ \E i \in Events("stmtEnd") : log[i].act > 0 /\ log[i].i = 1 /\ IsError(log[i].res)
  /\ \E i \in Events("stmtEnd") : log[i].act = 0 /\ IsError(log[i].res)

\* C6: a ReturnValue is never user-visible: not what evaluate returns for the
\* program, not what applyFunction returns, not a binding, not the payload of
\* another ReturnValue.
C6_ReturnValueNeverVisible ==
  /\ phase = "done" => result.kind # "returnValue"
  /\ \A i \in Events("callEnd") : log[i].res.kind # "returnValue"
  /\ \A i \in Events("set") : log[i].value.kind # "returnValue"
  /\ \A i \in Events("return") : log[i].value.kind # "returnValue"

\* The calls that have not returned when the trace is at position i.
OpenCalls(i) ==
  {c \in Events("call") : c < i /\ \A j \in Events("callEnd") : j < i => log[j].act # c}

\* The blocks that enclose position i within the innermost function call.
EnclosingBlocks(i) ==
  {k \in Events("block") :
     /\ k < i
     /\ \A j \in Events("blockEnd") : j < i => log[j].act # k
     /\ \A c \in OpenCalls(i) : c < k}

\* C7: after a return has executed, no remaining statement of any block that
\* encloses it is evaluated, nor of the program when it is at top level.
C7_ReturnUnwindsEnclosingBlocks ==
  \A i \in Events("return") :
    /\ \A k \in EnclosingBlocks(i) : \A j \in Events("stmt") : j > i => log[j].act # k
    /\ OpenCalls(i) = {} => \A j \in Events("stmt") : j > i => log[j].act # 0

\* C8: evaluate never throws and always returns an Object.
C8_EvaluateNeverThrows ==
  /\ phase # "threw"
  /\ phase = "done" => result.kind # "undefined"

\* C9: a call creates a new child environment whose outer is the function's
\* captured environment; parameter binding and every let of the body write only
\* to environments created by the call, so every environment that existed
\* before the call is after it exactly what it was.
C9_CallWritesOnlyToChild ==
  \A j \in Events("callEnd") :
    /\ log[log[j].act].ev = "call"
    /\ log[log[j].act].child = Len(log[log[j].act].before) + 1
    /\ log[j].after[log[log[j].act].child].outer = log[log[j].act].func.env
    /\ SubSeq(log[j].after, 1, Len(log[log[j].act].before)) = log[log[j].act].before
    /\ \A s \in Events("set") :
         (log[j].act < s /\ s < j) => log[s].env > Len(log[log[j].act].before)

\* let x = 1; let f = fn(x) { let y = x; let x = 0; y }; f(2); x has run: the
\* child environment binds x, and so does the captured one, to another value.
C9_Witness ==
  /\ tokens = ShadowSource
  /\ phase = "done"
  /\ result = Integer(1)
  /\ \E j \in Events("callEnd") :
       /\ "x" \in DOMAIN log[j].after[log[log[j].act].child].vars
       /\ "x" \in DOMAIN log[log[j].act].before[log[log[j].act].func.env].vars
       /\ log[j].after[log[log[j].act].child].vars["x"]
            # log[j].after[log[log[j].act].func.env].vars["x"]

\* C10: a function reads, on every call, the bindings its environment holds at
\* the time of the call: a name rebound after the function was made, a name
\* bound only after it was made, and the function's own name.
C10_FunctionHoldsEnvironmentByReference ==
  (phase \in {"done", "threw", "refused", "parseThrew"} /\ tokens \in ClosureSources
     /\ tokens # ClosureSource) =>
    /\ phase = "done"
    /\ \A v1 \in 0..MaxInt, v2 \in 0..MaxInt :
         tokens = RebindSource(v1, v2) => result = Integer(v2)
    /\ \A v \in 0..MaxInt : tokens = LateBindSource(v) => result = Integer(v)
    /\ \A v \in 0..MaxRecursion : tokens = RecursiveSource(v) => result = Integer(0)

\* let x = 1; let f = fn() { x }; let x = 2; f() has returned 2.
C10_Witness ==
  /\ tokens = RebindSource(1, 2)
  /\ phase = "done"
  /\ result = Integer(2)
  /\ Events("callEnd") # {}

\* ------------------------------------------- the evaluator's functions alone
\* A second state machine calls one function of the evaluator on arguments
\* drawn from bounded sets: program holds the node or the operator, store and
\* idx the heap and the environment, log the argument objects, result what the
\* function returned.
UnitInit ==
  /\ tokens = <<>>
  /\ parser = Undefined
  /\ phase = "unit"
  /\ program = Undefined
  /\ idx = 0
  /\ result = Undefined
  /\ store = <<>>
  /\ log = <<>>
  /\ thrown = ""

\* The machine a function is called on.
Machine(st) == [store |-> st, log |-> <<>>, thrown |-> ""]

UnitNames == {"x", "len"}

\* The own bindings an environment may have: some of the names, each bound to
\* one of two integers.
OwnBindings == UNION {[d -> {Integer(1), Integer(2)}] : d \in SUBSET UnitNames}

\* The heaps that are one chain of n environments, the global one first.
Chains(n) ==
  {[i \in 1..n |-> [outer |-> i - 1, vars |-> own[i]]] : own \in [1..n -> OwnBindings]}

\* evaluateIdentifier(node, environment)
CallEvaluateIdentifier ==
  /\ phase = "unit"
  /\ \E n \in 1..MaxChain :
       \E st \in Chains(n), e \in 1..n, name \in UnitNames :
         /\ store' = st
         /\ idx' = e
         /\ program' = [kind |-> "identifier", value |-> name]
         /\ result' = EvaluateIdentifier([kind |-> "identifier", value |-> name], e,
                                         Machine(st)).v
  /\ phase' = "evaluateIdentifier"
  /\ UNCHANGED <<tokens, parser, log, thrown>>

\* The objects the functions are called on: none of them an Error.
UnitObjects ==
  {Integer(n) : n \in -1..MaxInt}
    \cup {Boolean(TRUE), Boolean(FALSE), NULL, String(<<>>), String(<<"a">>),
          Array(<<>>), Array(<<Integer(1), Boolean(FALSE)>>), Hashmap(<<>>),
          Builtin("len"),
          Func(<<>>, [kind |-> "blockStatement", statements |-> <<>>], 1)}

\* The operators of the parser's infix expressions, and one that is none.
UnitOperators == {"==", "!=", "<", ">", "+", "-", "*", "/", "&"}

\* evaluateInfixExpression(operator, left, right)
CallEvaluateInfixExpression ==
  /\ phase = "unit"
  /\ \E operator \in UnitOperators, left \in UnitObjects, right \in UnitObjects :
       /\ program' = [kind |-> "infixExpression", operator |-> operator]
       /\ log' = <<left, right>>
       /\ result' = EvaluateInfixExpression(operator, left, right)
  /\ phase' = "evaluateInfixExpression"
  /\ UNCHANGED <<tokens, parser, idx, store, thrown>>

\* evaluateIndexExpression(left, index); the index may be what a division
\* returned.
CallEvaluateIndexExpression ==
  /\ phase = "unit"
  /\ \E left \in UnitObjects, index \in UnitObjects \cup {Inexact} :
       /\ log' = <<left, index>>
       /\ result' = EvaluateIndexExpression(left, index)
  /\ program' = [kind |-> "indexExpression"]
  /\ phase' = "evaluateIndexExpression"
  /\ UNCHANGED <<tokens, parser, idx, store, thrown>>

\* evaluatePrefixExpression(operator, right)
CallEvaluatePrefixExpression ==
  /\ phase = "unit"
  /\ \E operator \in {"!", "-"}, right \in UnitObjects :
       /\ program' = [kind |-> "prefixExpression", operator |-> operator]
       /\ log' = <<right>>
       /\ result' = EvaluatePrefixExpression(operator, right)
  /\ phase' = "evaluatePrefixExpression"
  /\ UNCHANGED <<tokens, parser, idx, store, thrown>>

\* { n }
UnitBlock(n) ==
  [kind |-> "blockStatement",
   statements |-> <<[kind |-> "expressionStatement",
                     expression |-> [kind |-> "integerLiteral", value |-> n]]>>]

\* if (c) { 1 } and if (c) { 1 } else { 2 }
UnitIfs ==
  {[kind |-> "ifExpression", condition |-> [kind |-> "identifier", value |-> "c"],
    consequence |-> UnitBlock(1), alternative |-> alternative] :
     alternative \in {Undefined, UnitBlock(2)}}

\* evaluateIfExpression(node, environment), the environment binding c.
CallEvaluateIfExpression ==
  /\ phase = "unit"
  /\ \E node \in UnitIfs, condition \in UnitObjects :
       /\ program' = node
       /\ log' = <<condition>>
       /\ store' = EnvSet(NewEnvironment(<<>>, 0), 1, "c", condition)
       /\ result' = EvaluateIfExpression(
                      node, 1,
                      Machine(EnvSet(NewEnvironment(<<>>, 0), 1, "c", condition)), 0).v
  /\ idx' = 1
  /\ phase' = "evaluateIfExpression"
  /\ UNCHANGED <<tokens, parser, thrown>>

\* fn() { name }, fn(x) { name } and fn(x, len) { name } made in the global
\* environment.
UnitFunctions ==
  {Func(parameters,
        [kind |-> "blockStatement",
         statements |-> <<[kind |-> "expressionStatement",
                           expression |-> [kind |-> "identifier", value |-> name]]>>],
        1) :
     parameters \in {<<>>, <<[kind |-> "identifier", value |-> "x"]>>,
                     <<[kind |-> "identifier", value |-> "x"],
                       [kind |-> "identifier", value |-> "len"]>>},
     name \in UnitNames}

\* The argument lists of up to n objects.
RECURSIVE UnitArguments(_)
UnitArguments(n) ==
  IF n = 0 THEN {<<>>}
  ELSE UnitArguments(n - 1)
         \cup {Append(args, arg) : args \in UnitArguments(n - 1), arg \in {Integer(0), NULL}}

\* applyFunction(func, args); log holds the arguments, store the heap after
\* the call.
CallApplyFunction ==
  /\ phase = "unit"
  /\ \E func \in UnitFunctions, args \in UnitArguments(MaxArgs), st \in Chains(1) :
       /\ program' = func
       /\ log' = args
       /\ store' = ApplyFunction(func, args, Machine(st), 0).m.store
       /\ result' = ApplyFunction(func, args, Machine(st), 0).v
  /\ idx' = 1
  /\ phase' = "applyFunction"
  /\ UNCHANGED <<tokens, parser, thrown>>

UnitNext ==
  \/ CallApplyFunction
  \/ CallEvaluateIdentifier
  \/ CallEvaluateInfixExpression
  \/ CallEvaluateIndexExpression
  \/ CallEvaluatePrefixExpression
  \/ CallEvaluateIfExpression

UnitSpec == UnitInit /\ [][UnitNext]_vars

\* The environments from e outward.
RECURSIVE Outward(_, _)
Outward(st, e) == IF e = 0 THEN {} ELSE {e} \cup Outward(st, st[e].outer)

\* The environments from e outward that bind the name.
Binders(st, e, name) == {c \in Outward(st, e) : name \in DOMAIN st[c].vars}

\* C11: an identifier evaluates to the innermost binding of its name in the
\* environment chain; to the builtin of that name only when no environment of
\* the chain binds it; and to the Error identifier not found when there is
\* neither.
C11_IdentifierLookup ==
  phase = "evaluateIdentifier" =>
    /\ \A c \in Binders(store, idx, program.value) :
         Binders(store, idx, program.value) \subseteq Outward(store, c)
           => result = store[c].vars[program.value]
    /\ (Binders(store, idx, program.value) = {} /\ program.value \in BuiltinNames)
         => result = Builtin(program.value)
    /\ (Binders(store, idx, program.value) = {} /\ program.value \notin BuiltinNames)
         => result = Error(<<"identifier not found", program.value>>)

\* len is looked up where an outer environment binds it, the current one does
\* not, and an environment in between binds it to something else.
C11_Witness ==
  /\ phase = "evaluateIdentifier"
  /\ program.value = "len"
  /\ idx = 3
  /\ "len" \notin DOMAIN store[3].vars
  /\ "len" \in DOMAIN store[2].vars
  /\ "len" \in DOMAIN store[1].vars
  /\ store[1].vars["len"] # store[2].vars["len"]
  /\ result = store[2].vars["len"]

\* C12: evaluateInfixExpression returns a type mismatch Error when the kinds
\* differ; otherwise TRUE or FALSE by equality for == and !=; otherwise the
\* integer result of + - * /, or the Boolean of < >, on two Integers;
\* otherwise the concatenation for + on two Strings; otherwise an unknown
\* operator Error.
C12_InfixDispatch ==
  phase = "evaluateInfixExpression" =>
    IF log[1].kind # log[2].kind
    THEN result = Error(<<"type mismatch", log[1].kind, program.operator, log[2].kind>>)
    ELSE IF program.operator \in {"==", "!="}
    THEN /\ result \in {Boolean(TRUE), Boolean(FALSE)}
         /\ log[1].kind \in {"integer", "string", "boolean", "null"} =>
              result = Boolean((log[1] = log[2]) = (program.operator = "=="))
    ELSE IF log[1].kind = "integer" /\ program.operator \in {"+", "-", "*", "/", "<", ">"}
    THEN CASE program.operator = "+" -> result = Integer(log[1].value + log[2].value)
           [] program.operator = "-" -> result = Integer(log[1].value - log[2].value)
           [] program.operator = "*" -> result = Integer(log[1].value * log[2].value)
           [] program.operator = "/" -> result.kind = "integer" /\ result.exact
           [] program.operator = "<" -> result = Boolean(log[1].value < log[2].value)
           [] program.operator = ">" -> result = Boolean(log[1].value > log[2].value)
    ELSE IF log[1].kind = "string" /\ program.operator = "+"
    THEN result = String(log[1].value \o log[2].value)
    ELSE result = Error(<<"unknown operator", log[1].kind, program.operator, log[2].kind>>)

\* C13: indexing an Array of length N by an Integer i returns the i-th element
\* when 0 <= i < N and Null otherwise, never an Error and never anything that
\* is not an Object.
C13_ArrayIndex ==
  (phase = "evaluateIndexExpression" /\ log[1].kind = "array" /\ log[2].kind = "integer") =>
    /\ result.kind \notin {"undefined", "error"}
    /\ log[2].exact =>
         result = IF 0 <= log[2].value /\ log[2].value < Len(log[1].elements)
                  THEN log[1].elements[log[2].value + 1]
                  ELSE NULL

\* The objects that are falsy: the FALSE singleton and Null.
Falsy == {Boolean(FALSE), NULL}

\* C14: !v is TRUE exactly when v is FALSE or Null and FALSE for every other
\* object; an if-expression takes its consequence for exactly the other
\* objects, and yields Null when the condition is falsy and there is no
\* alternative.
C14_BangAndTruthiness ==
  /\ (phase = "evaluatePrefixExpression" /\ program.operator = "!") =>
       result = Boolean(log[1] \in Falsy)
  /\ phase = "evaluateIfExpression" =>
       result = IF log[1] \notin Falsy THEN Integer(1)
                ELSE IF IsUndefined(program.alternative) THEN NULL
                ELSE Integer(2)

\* !0 has evaluated to FALSE.
C14_Witness ==
  /\ phase = "evaluatePrefixExpression"
  /\ program.operator = "!"
  /\ log[1] = Integer(0)
  /\ result = Boolean(FALSE)

\* C15: over the life of a Parser, the constructor and parseProgram, the
\* lexer's nextToken is never called again after it has returned the eof
\* token.
C15_LexerNotCalledPastEof == parser.pastEof = 0

\* The name the body of the applied function reads.
BodyName == program.body.statements[1].expression.value

\* The parameters of the applied function that have an argument and the name.
Bound(name) ==
  {p \in 1..Len(program.parameters) : p <= Len(log) /\ program.parameters[p].value = name}

\* C16: a function applied to more arguments than it has parameters ignores
\* the extra ones, and a parameter without an argument reads as a name absent
\* from the child environment: the body's name is the argument of the
\* parameter of that name if it has one, and otherwise what the captured
\* environment, then the builtins, then identifier not found give.
C16_NoArityCheck ==
  phase = "applyFunction" =>
    /\ \A p \in Bound(BodyName) : result = log[p]
    /\ (Bound(BodyName) = {} /\ BodyName \in DOMAIN store[1].vars) =>
         result = store[1].vars[BodyName]
    /\ (Bound(BodyName) = {} /\ BodyName \notin DOMAIN store[1].vars) =>
         result = IF BodyName \in BuiltinNames THEN Builtin(BodyName)
                  ELSE Error(<<"identifier not found", BodyName>>)

\* fn(x, len) { x } has been applied to no argument where the global
\* environment binds x.
C16_Witness ==
  /\ phase = "applyFunction"
  /\ Len(program.parameters) = 2
  /\ log = <<>>
  /\ BodyName = "x"
  /\ "x" \in DOMAIN store[1].vars
  /\ result = store[1].vars["x"]

\* C17: the parser drops no statement silently: when parseProgram has returned
\* and errors is empty, every statement of the input is in the Program, so a
\* source that holds a statement gives a Program with a statement, and the two
\* statements of let f = fn(x) { fn(y) { x + y } }; f(2)(3) give two.
C17_NoSilentDrop ==
  (phase = "parsed" /\ parser.errors = <<>>) =>
    /\ Len(tokens) > 1 => program.body # <<>>
    /\ tokens = ClosureSource => Len(program.body) = 2

\* The function literals that are the expression of a top-level statement.
TopLevelFunctionLiterals ==
  {program.body[i].expression : i \in
     {j \in 1..Len(program.body) :
        /\ program.body[j].kind = "expressionStatement"
        /\ program.body[j].expression.kind = "functionLiteral"}}

\* C18: every parameter of a FunctionLiteral the parser produced has the text
\* of a token of kind identifier of the source.
C18_ParametersAreIdentifiers ==
  (phase = "parsed" /\ program.kind = "program") =>
    \A f \in TopLevelFunctionLiterals :
      \A i \in 1..Len(f.parameters) :
        \E t \in 1..Len(tokens) :
          /\ tokens[t].kind = "identifier"
          /\ tokens[t].text = f.parameters[i].value

====
